---- MODULE Spec2Model ----
(***************************************************************************)
(* Model of the real-time messaging core of the hostel marketplace:        *)
(* the chat socket module (src/unnamed/part_013), the message model        *)
(* (src/backend/models/booking.js, lines 330-593) and the message routes   *)
(* (src/backend/routes/hostels.js, lines 237-416).                         *)
(*                                                                         *)
(* One action is one turn of the server's event loop: the arrival of a     *)
(* socket or HTTP event, or the completion of a database statement         *)
(* together with the callback and promise continuations it triggers.       *)
(***************************************************************************)
EXTENDS Integers, Sequences, FiniteSets, TLC

VARIABLES conns, activeUsers, messages, nextId, now, tasks, nTasks, marks, gets, out, bcast

vars == <<conns, activeUsers, messages, nextId, now, tasks, nTasks, marks, gets, out, bcast>>

(***************************************************************************)
(* Bounds                                                                  *)
(***************************************************************************)
NumUsers == 2
NumConns == 2
MaxSends == 1
MaxBurst == 2
MaxClock == 1
MaxPending == 1
MaxStored == 1
StoreConns == 1
MaxRows == 3
MaxRoomId == 10
MaxOld == 2

Users == 1..NumUsers
\* the socket slots of the server
Conns == DOMAIN conns

\* a handshake / payload field that is absent (undefined): falsy in JS
NoUser == 0
\* socket.currentChat before any join (undefined) or after a leave (null)
NoChat == ""
\* content values a client may put in a send_message payload
ValidContents == {"hi"}
BlankContents == {"", " "}
Contents == ValidContents \cup BlankContents

(***************************************************************************)
(* Room names                                                              *)
(***************************************************************************)
DigitStr(d) ==
  CASE d = 0 -> "0" [] d = 1 -> "1" [] d = 2 -> "2" [] d = 3 -> "3" [] d = 4 -> "4"
    [] d = 5 -> "5" [] d = 6 -> "6" [] d = 7 -> "7" [] d = 8 -> "8" [] d = 9 -> "9"

RECURSIVE Str(_)
\* String(n) of a non-negative integer
Str(n) == IF n < 10 THEN DigitStr(n) ELSE Str(n \div 10) \o DigitStr(n % 10)

RECURSIVE Digits(_)
Digits(n) == IF n < 10 THEN <<n>> ELSE Append(Digits(n \div 10), n % 10)

RECURSIVE LexLess(_, _)
\* code-unit order of two digit strings, as Array.prototype.sort compares
LexLess(s, t) ==
  IF t = <<>> THEN FALSE
  ELSE IF s = <<>> THEN TRUE
  ELSE IF Head(s) # Head(t) THEN Head(s) < Head(t)
  ELSE LexLess(Tail(s), Tail(t))

\* mutant: the pair as given, without the sort
SortPairKeep(a, b) == <<a, b>>

\* [a, b].sort(): default comparator, stable
SortPair(a, b) == IF LexLess(Digits(b), Digits(a)) THEN <<b, a>> ELSE <<a, b>>

\* [a, b].sort().join('_')
RoomName(a, b) == Str(SortPair(a, b)[1]) \o "_" \o Str(SortPair(a, b)[2])

\* `user_${userId}`
UserRoom(u) == "user_" \o Str(u)

(***************************************************************************)
(* Emission of events                                                      *)
(***************************************************************************)
Connected(c) == conns[c].st = "connected"

\* the connected sockets that joined a room
Members(room) == {c \in Conns : Connected(c) /\ room \in conns[c].rooms}

\* an emitted event: its name, the channel it was emitted to, the sockets that
\* were in that channel, and its payload (msg: the message rows it carries,
\* arg: a user id or a count, status: of user_status or the text of an error,
\* req: the parameters of the HTTP request a response answers)
Event(ev, chan, to, msg, arg, status) ==
  [ev |-> ev, chan |-> chan, to |-> to, msg |-> msg, arg |-> arg, status |-> status,
   req |-> <<>>]

\* io.to(room).emit(ev, ...)
ToRoom(ev, room, msg, arg) == Event(ev, room, Members(room), msg, arg, "")

\* mutant: an emit to the whole room, the emitting socket included
ToOthersAndSelf(c, ev, room, arg) == Event(ev, room, Members(room), <<>>, arg, "")

\* socket.to(room).emit(ev, {user_id}) of socket c: the members of the room but c
ToOthers(c, ev, room, arg) == Event(ev, room, Members(room) \ {c}, <<>>, arg, "")

\* io.emit('user_status', {userId, status}) as seen once the sockets are cs
ToAll(cs, userId, status) == Event("user_status", "*", cs, <<>>, userId, status)

\* res.status(200).json({..., count}) of a REST route
Response(route, req, msg, count) ==
  [Event("response", route, {}, msg, count, "") EXCEPT !.req = req]

\* socket.emit('error', ...) of socket c: reaches the client only while connected
ErrorTo(c, message) ==
  Event("error", "socket", IF Connected(c) THEN {c} ELSE {}, <<>>, 0, message)


(***************************************************************************)
(* Message Store                                                           *)
(***************************************************************************)
Row(id, s, r, content, ts) ==
  [id |-> id, sender_id |-> s, receiver_id |-> r, content |-> content,
   timestamp |-> ts, is_read |-> FALSE]

\* getMessageById: the row with that id, or no row (undefined)
getMessageById(store, id) ==
  IF \E m \in store : m.id = id THEN <<CHOOSE m \in store : m.id = id>> ELSE <<>>

\* mutant: the WHERE clause without "AND is_read = 0"
MarkReadMatchesAnyFlag(store, receiver_id, sender_id) ==
  {m \in store : m.receiver_id = receiver_id /\ m.sender_id = sender_id}

\* rows matched by the UPDATE of markMessagesAsRead
MarkReadMatches(store, receiver_id, sender_id) ==
  {m \in store : m.receiver_id = receiver_id /\ m.sender_id = sender_id /\ ~m.is_read}

\* mutant: an UPDATE that inverts the flag of the pair's rows
markMessagesAsReadFlip(store, receiver_id, sender_id) ==
  {IF m.receiver_id = receiver_id /\ m.sender_id = sender_id
     THEN [m EXCEPT !.is_read = ~@] ELSE m : m \in store}

\* markMessagesAsRead: the store after the UPDATE
markMessagesAsRead(store, receiver_id, sender_id) ==
  {IF m \in MarkReadMatches(store, receiver_id, sender_id)
     THEN [m EXCEPT !.is_read = TRUE] ELSE m : m \in store}

\* mutant: the number of rows of that direction, read or not
MarkReadChangesAnyFlag(store, receiver_id, sender_id) ==
  Cardinality(MarkReadMatchesAnyFlag(store, receiver_id, sender_id))

\* markMessagesAsRead: this.changes
MarkReadChanges(store, receiver_id, sender_id) ==
  Cardinality(MarkReadMatches(store, receiver_id, sender_id))

\* mutant: a DELETE of the first direction only
DeleteMatchesOneWay(store, user1_id, user2_id) ==
  {m \in store : m.sender_id = user1_id /\ m.receiver_id = user2_id}

\* rows matched by the DELETE of deleteConversation
DeleteMatches(store, user1_id, user2_id) ==
  {m \in store : \/ (m.sender_id = user1_id /\ m.receiver_id = user2_id)
                 \/ (m.sender_id = user2_id /\ m.receiver_id = user1_id)}

deleteConversation(store, user1_id, user2_id) ==
  store \ DeleteMatches(store, user1_id, user2_id)

(***************************************************************************)
(* Initial state                                                           *)
(***************************************************************************)
\* a slot without a live socket: none yet, a closed one, or one the handshake refused
FreshConn == [st |-> "idle", userId |-> NoUser, rooms |-> {}, currentChat |-> NoChat]
RejectedConn == [st |-> "rejected", userId |-> NoUser, rooms |-> {}, currentChat |-> NoChat]

\* the rows the messages table may hold when the server starts: the table is
\* durable, written by earlier runs, with ids 1..n handed out by AUTOINCREMENT
RECURSIVE Stores(_)
Stores(n) ==
  IF n = 0 THEN {{}}
  ELSE LET older == Stores(n - 1)
           rows == {[Row(n, s, r, x, 0) EXCEPT !.is_read = b] :
                      s \in Users, r \in Users, x \in ValidContents, b \in BOOLEAN}
       IN  older \cup {st \cup {m} : st \in older, m \in rows}

InitWith(slots, old) ==
  /\ conns = [c \in 1..slots |-> FreshConn]
  /\ activeUsers = {}
  /\ messages \in Stores(old)
  /\ nextId = old + 1
  /\ now = 0
  /\ tasks = {}
  /\ nTasks = 0
  /\ marks = {}
  /\ gets = {}
  /\ out = <<>>
  /\ bcast = <<>>

Init == InitWith(NumConns, 0)

(***************************************************************************)
(* Connection lifecycle                                                    *)
(***************************************************************************)
\* the Map activeUsers as its set of entries <<userId, socket id>>
MapDelete(map, k) == {e \in map : e[1] # k}
MapSet(map, k, v) == MapDelete(map, k) \cup {<<k, v>>}
MapHas(map, k) == \E e \in map : e[1] = k
MapGet(map, k) == (CHOOSE e \in map : e[1] = k)[2]

\* requests whose handler is suspended in a database call
InFlight == Cardinality(tasks) + Cardinality(marks) + Cardinality(gets)

Pending(c) == (\E t \in tasks : t.conn = c) \/ (\E t \in marks : t.conn = c)

\* mutant: a middleware that calls next() whatever the handshake carries
AuthOkAlways(userId) == TRUE

\* io.use middleware: does the handshake pass?
AuthOk(userId) == userId # NoUser

\* a new socket in slot c presents userId at the handshake
Connect(c, userId) ==
  /\ ~Connected(c)
  /\ ~Pending(c)
  /\ IF ~AuthOk(userId)
       THEN /\ conns' = [conns EXCEPT ![c] = RejectedConn]
            /\ out' = <<Event("connect_error", "socket", {c}, <<>>, 0, "")>>
            /\ UNCHANGED activeUsers
       ELSE /\ conns' = [conns EXCEPT ![c] =
                  [st |-> "connected", userId |-> userId,
                   rooms |-> {UserRoom(userId)}, currentChat |-> NoChat]]
            /\ activeUsers' = MapSet(activeUsers, userId, c)
            /\ out' = <<ToAll({d \in Conns : Connected(d)} \cup {c}, userId, "online")>>
  /\ UNCHANGED <<messages, nextId, now, tasks, nTasks, marks, gets, bcast>>

\* mutant: a disconnect handler that keeps the presence entry
DisconnectKeepPresence(c) ==
  /\ Connected(c)
  /\ conns' = [conns EXCEPT ![c] = FreshConn]
  /\ out' = <<ToAll({d \in Conns : Connected(d)} \ {c}, conns[c].userId, "offline")>>
  /\ UNCHANGED <<activeUsers, messages, nextId, now, tasks, nTasks, marks, gets, bcast>>

\* the transport closes socket c: it leaves its rooms, then the handler runs
Disconnect(c) ==
  /\ Connected(c)
  /\ conns' = [conns EXCEPT ![c] = FreshConn]
  /\ activeUsers' = MapDelete(activeUsers, conns[c].userId)
  /\ out' = <<ToAll({d \in Conns : Connected(d)} \ {c}, conns[c].userId, "offline")>>
  /\ UNCHANGED <<messages, nextId, now, tasks, nTasks, marks, gets, bcast>>

\* mutant: a join whose room name leaves out the socket's own user
JoinConversationAnyRoom(c, other_user_id) ==
  /\ Connected(c)
  /\ other_user_id # NoUser
  /\ conns' = [conns EXCEPT ![c].rooms = @ \cup {RoomName(other_user_id, other_user_id)},
                            ![c].currentChat = RoomName(other_user_id, other_user_id)]
  /\ out' = <<>>
  /\ UNCHANGED <<activeUsers, messages, nextId, now, tasks, nTasks, marks, gets, bcast>>

\* mutant: a join that does not record the current chat
JoinConversationOnly(c, other_user_id) ==
  /\ Connected(c)
  /\ other_user_id # NoUser
  /\ conns' = [conns EXCEPT ![c].rooms = @ \cup {RoomName(conns[c].userId, other_user_id)}]
  /\ out' = <<>>
  /\ UNCHANGED <<activeUsers, messages, nextId, now, tasks, nTasks, marks, gets, bcast>>

JoinConversation(c, other_user_id) ==
  /\ Connected(c)
  /\ IF other_user_id = NoUser
       THEN /\ out' = <<ErrorTo(c, "Other user ID is required")>>
            /\ UNCHANGED conns
       ELSE LET roomName == RoomName(conns[c].userId, other_user_id) IN
            /\ conns' = [conns EXCEPT ![c].rooms = @ \cup {roomName},
                                      ![c].currentChat = roomName]
            /\ out' = <<>>
  /\ UNCHANGED <<activeUsers, messages, nextId, now, tasks, nTasks, marks, gets, bcast>>

LeaveConversation(c, other_user_id) ==
  /\ Connected(c)
  /\ IF other_user_id = NoUser
       THEN /\ out' = <<ErrorTo(c, "Other user ID is required")>>
            /\ UNCHANGED conns
       ELSE LET roomName == RoomName(conns[c].userId, other_user_id) IN
            /\ conns' = [conns EXCEPT ![c].rooms = @ \ {roomName},
                                      ![c].currentChat = NoChat]
            /\ out' = <<>>
  /\ UNCHANGED <<activeUsers, messages, nextId, now, tasks, nTasks, marks, gets, bcast>>

\* the typing event arrives on socket c
Typing(c, receiver_id) ==
  /\ Connected(c)
  /\ out' = IF receiver_id = NoUser THEN <<>>
            ELSE <<ToOthers(c, "user_typing", RoomName(conns[c].userId, receiver_id),
                            conns[c].userId)>>
  /\ UNCHANGED <<conns, activeUsers, messages, nextId, now, tasks, nTasks, marks, gets, bcast>>

\* the stop_typing event arrives on socket c
StopTyping(c, receiver_id) ==
  /\ Connected(c)
  /\ out' = IF receiver_id = NoUser THEN <<>>
            ELSE <<ToOthers(c, "user_stop_typing", RoomName(conns[c].userId, receiver_id),
                            conns[c].userId)>>
  /\ UNCHANGED <<conns, activeUsers, messages, nextId, now, tasks, nTasks, marks, gets, bcast>>

(***************************************************************************)
(* send_message                                                            *)
(***************************************************************************)
\* mutant: the validation without the trim
InvalidMessageDataNoTrim(receiver_id, content) ==
  receiver_id = NoUser \/ content = ""

\* line 61: !receiver_id || !content || content.trim() === ''
InvalidMessageData(receiver_id, content) ==
  receiver_id = NoUser \/ content \in BlankContents

\* sendMessage, line 348: !sender_id || !receiver_id || !content
MissingFields(sender_id, receiver_id, content) ==
  sender_id = NoUser \/ receiver_id = NoUser \/ content = ""

\* mutant: a handler that takes the sender from the payload
SendMessageAsPayload(limit, cap, c, receiver_id, content) ==
  /\ Connected(c)
  /\ ~InvalidMessageData(receiver_id, content)
  /\ nTasks < limit /\ InFlight < cap
  /\ nTasks' = nTasks + 1
  /\ tasks' = tasks \cup
       {[seq |-> nTasks + 1, kind |-> "send", conn |-> c,
         sender_id |-> receiver_id, receiver_id |-> receiver_id,
         content |-> content, phase |-> "init", ts |-> 0, id |-> 0]}
  /\ out' = <<>>
  /\ UNCHANGED <<conns, activeUsers, messages, nextId, now, marks, gets, bcast>>

\* the send_message event arrives on socket c; the handler runs up to its
\* first suspension (await initializeDatabase() inside sendMessage)
SendMessage(limit, cap, c, receiver_id, content) ==
  /\ Connected(c)
  /\ IF InvalidMessageData(receiver_id, content)
       THEN /\ out' = <<ErrorTo(c, "Invalid message data")>>
            /\ UNCHANGED <<tasks, nTasks>>
       ELSE /\ nTasks < limit /\ InFlight < cap
            /\ nTasks' = nTasks + 1
            /\ tasks' = tasks \cup
                 {[seq |-> nTasks + 1, kind |-> "send", conn |-> c,
                   sender_id |-> conns[c].userId, receiver_id |-> receiver_id,
                   content |-> content, phase |-> "init", ts |-> 0, id |-> 0]}
            /\ out' = <<>>
  /\ UNCHANGED <<conns, activeUsers, messages, nextId, now, marks, gets, bcast>>

\* the task fails: the promise rejects and the catch block emits an error
Fail(t) ==
  /\ tasks' = tasks \ {t}
  /\ out' = IF t.kind = "send" THEN <<ErrorTo(t.conn, "Failed to send message")>>
                               ELSE <<Response("POST /send 500", <<>>, <<>>, 0)>>

\* initializeDatabase() settles; on success the promise executor of
\* sendMessage validates, takes the timestamp and submits the INSERT
SendInit(t, ok) ==
  /\ t.phase = "init"
  /\ IF ok /\ ~MissingFields(t.sender_id, t.receiver_id, t.content)
       THEN /\ tasks' = (tasks \ {t}) \cup {[t EXCEPT !.phase = "insert", !.ts = now]}
            /\ out' = <<>>
       ELSE Fail(t)
  /\ UNCHANGED <<conns, activeUsers, messages, nextId, now, nTasks, marks, gets, bcast>>

\* the INSERT completes; its callback submits the SELECT of getMessageById
SendInsert(t, ok) ==
  /\ t.phase = "insert"
  /\ IF ok
       THEN /\ messages' = messages \cup
                 {Row(nextId, t.sender_id, t.receiver_id, t.content, t.ts)}
            /\ nextId' = nextId + 1
            /\ tasks' = (tasks \ {t}) \cup {[t EXCEPT !.phase = "select", !.id = nextId]}
            /\ out' = <<>>
       ELSE /\ Fail(t)
            /\ UNCHANGED <<messages, nextId>>
  /\ UNCHANGED <<conns, activeUsers, now, nTasks, marks, gets, bcast>>

\* lines 79-93: the notification decision, for the message read back
Notification(receiver_id, roomName, msg) ==
  IF MapHas(activeUsers, receiver_id)
    THEN LET receiverSocketId == MapGet(activeUsers, receiver_id) IN
         IF Connected(receiverSocketId) /\ conns[receiverSocketId].currentChat # roomName
           THEN <<ToRoom("message_notification", UserRoom(receiver_id), msg, 0)>>
           ELSE <<>>
    ELSE <<>>

\* lines 69-93 for the value msg that sendMessage resolved with; the
\* notification payload reads message.sender_name, which throws when the
\* SELECT found no row, and the catch block then emits the error
Broadcast(t, msg) ==
  LET roomName == RoomName(t.sender_id, t.receiver_id)
      news == << ToRoom("new_message", roomName, msg, 0),
                 ToRoom("new_message", UserRoom(t.sender_id), msg, 0),
                 ToRoom("new_message", UserRoom(t.receiver_id), msg, 0) >>
      notif == Notification(t.receiver_id, roomName, msg)
  IN  IF notif # <<>> /\ msg = <<>>
        THEN news \o <<ErrorTo(t.conn, "Failed to send message")>>
        ELSE news \o notif

\* the SELECT completes; sendMessage resolves and the handler broadcasts
SendSelect(t, ok) ==
  /\ t.kind = "send" /\ t.phase = "select"
  /\ IF ok
       THEN /\ tasks' = tasks \ {t}
            /\ out' = Broadcast(t, getMessageById(messages, t.id))
            /\ bcast' = Append(bcast, [seq |-> t.seq, conn |-> t.conn,
                                       sender_id |-> t.sender_id,
                                       receiver_id |-> t.receiver_id, id |-> t.id,
                                       to |-> Members(UserRoom(t.receiver_id))])
       ELSE /\ Fail(t)
            /\ UNCHANGED bcast
  /\ UNCHANGED <<conns, activeUsers, messages, nextId, now, nTasks, marks, gets>>

(***************************************************************************)
(* mark_read                                                               *)
(***************************************************************************)
\* the mark_read event arrives on socket c; the handler runs up to the
\* await of markMessagesAsRead
MarkRead(cap, c, sender_id) ==
  /\ Connected(c)
  /\ IF sender_id = NoUser
       THEN /\ out' = <<ErrorTo(c, "Sender ID is required")>>
            /\ UNCHANGED marks
       ELSE /\ InFlight < cap
            /\ marks' = marks \cup
                 {[conn |-> c, receiver_id |-> conns[c].userId, sender_id |-> sender_id]}
            /\ out' = <<>>
  /\ UNCHANGED <<conns, activeUsers, messages, nextId, now, tasks, nTasks, gets, bcast>>

\* the UPDATE completes; the handler emits messages_read to the pair room
MarkReadDone(t, ok) ==
  /\ marks' = marks \ {t}
  /\ IF ok
       THEN /\ messages' = markMessagesAsRead(messages, t.receiver_id, t.sender_id)
            /\ out' = <<ToRoom("messages_read", RoomName(t.receiver_id, t.sender_id), <<>>,
                               MarkReadChanges(messages, t.receiver_id, t.sender_id))>>
       ELSE /\ out' = <<ErrorTo(t.conn, "Failed to mark messages as read")>>
            /\ UNCHANGED messages
  /\ UNCHANGED <<conns, activeUsers, nextId, now, tasks, nTasks, gets, bcast>>

(***************************************************************************)
(* REST message routes                                                     *)
(***************************************************************************)
\* POST /api/messages/send: validation, then sendMessage
PostSend(limit, cap, sender_id, receiver_id, content) ==
  /\ IF MissingFields(sender_id, receiver_id, content) \/ content \in BlankContents
       THEN /\ out' = <<Response("POST /send 400", <<>>, <<>>, 0)>>
            /\ UNCHANGED <<tasks, nTasks>>
       ELSE /\ nTasks < limit /\ InFlight < cap
            /\ nTasks' = nTasks + 1
            /\ tasks' = tasks \cup
                 {[seq |-> nTasks + 1, kind |-> "post", conn |-> 0,
                   sender_id |-> sender_id, receiver_id |-> receiver_id,
                   content |-> content, phase |-> "init", ts |-> 0, id |-> 0]}
            /\ out' = <<>>
  /\ UNCHANGED <<conns, activeUsers, messages, nextId, now, marks, gets, bcast>>

\* the SELECT of getMessageById completes; the route answers 201
PostSelect(t, ok) ==
  /\ t.kind = "post" /\ t.phase = "select"
  /\ IF ok
       THEN /\ tasks' = tasks \ {t}
            /\ out' = <<Response("POST /send 201", <<>>, getMessageById(messages, t.id), 0)>>
       ELSE Fail(t)
  /\ UNCHANGED <<conns, activeUsers, messages, nextId, now, nTasks, marks, gets, bcast>>

\* PUT /api/messages/read: validation, then the UPDATE and the answer
PutRead(receiver_id, sender_id, ok) ==
  /\ IF receiver_id = NoUser \/ sender_id = NoUser
       THEN /\ out' = <<Response("PUT /read 400", <<>>, <<>>, 0)>>
            /\ UNCHANGED messages
       ELSE IF ok
       THEN /\ messages' = markMessagesAsRead(messages, receiver_id, sender_id)
            /\ out' = <<Response("PUT /read 200", <<receiver_id, sender_id>>, <<>>,
                                 MarkReadChanges(messages, receiver_id, sender_id))>>
       ELSE /\ out' = <<Response("PUT /read 500", <<>>, <<>>, 0)>>
            /\ UNCHANGED messages
  /\ UNCHANGED <<conns, activeUsers, nextId, now, tasks, nTasks, marks, gets, bcast>>

\* DELETE /api/messages/conversation: validation, then the DELETE and the answer
DeleteConversation(user1_id, user2_id, ok) ==
  /\ IF user1_id = NoUser \/ user2_id = NoUser
       THEN /\ out' = <<Response("DELETE /conversation 400", <<>>, <<>>, 0)>>
            /\ UNCHANGED messages
       ELSE IF ok
       THEN /\ messages' = deleteConversation(messages, user1_id, user2_id)
            /\ out' = <<Response("DELETE /conversation 200", <<user1_id, user2_id>>, <<>>,
                                 Cardinality(DeleteMatches(messages, user1_id, user2_id)))>>
       ELSE /\ out' = <<Response("DELETE /conversation 500", <<>>, <<>>, 0)>>
            /\ UNCHANGED messages
  /\ UNCHANGED <<conns, activeUsers, nextId, now, tasks, nTasks, marks, gets, bcast>>

\* getMessages: the rows of the pair in one of the orders that ORDER BY
\* m.timestamp ASC allows (rows of equal timestamp come in any order)
Orderings(rows) ==
  {h \in [1..Cardinality(rows) -> rows] :
     /\ \A i, j \in DOMAIN h : i # j => h[i] # h[j]
     /\ \A i, j \in DOMAIN h : i < j => h[i].timestamp <= h[j].timestamp}

\* LIMIT ? OFFSET ?
Page(h, limit, offset) ==
  SubSeq(h, offset + 1, IF offset + limit < Len(h) THEN offset + limit ELSE Len(h))

getMessages(store, user1_id, user2_id, limit, offset) ==
  {Page(h, limit, offset) : h \in Orderings(DeleteMatches(store, user1_id, user2_id))}

\* parseInt(req.query.limit) || 50, parseInt(req.query.offset) || 0
DefaultLimit == 50
ParseLimit(q) == IF q = 0 THEN DefaultLimit ELSE q
Limits == {0, 1}
Offsets == {0, 1}

\* GET /api/messages arrives: validation, then the history query is submitted
GetMessages(cap, sender_id, receiver_id, limit, offset) ==
  /\ IF sender_id = NoUser \/ receiver_id = NoUser
       THEN /\ out' = <<Response("GET / 400", <<>>, <<>>, 0)>>
            /\ UNCHANGED gets
       ELSE /\ InFlight < cap
            /\ gets' = gets \cup
                 {[sender_id |-> sender_id, receiver_id |-> receiver_id,
                   limit |-> ParseLimit(limit), offset |-> offset,
                   phase |-> "history", got |-> <<>>]}
            /\ out' = <<>>
  /\ UNCHANGED <<conns, activeUsers, messages, nextId, now, tasks, nTasks, marks, bcast>>

\* the history SELECT completes; the route submits the mark-read UPDATE
GetHistory(t, ok) ==
  /\ t.phase = "history"
  /\ IF ok
       THEN /\ \E h \in getMessages(messages, t.sender_id, t.receiver_id, t.limit, t.offset) :
                 gets' = (gets \ {t}) \cup {[t EXCEPT !.phase = "mark", !.got = h]}
            /\ out' = <<>>
       ELSE /\ gets' = gets \ {t}
            /\ out' = <<Response("GET / 500", <<>>, <<>>, 0)>>
  /\ UNCHANGED <<conns, activeUsers, messages, nextId, now, tasks, nTasks, marks, bcast>>

\* mutant: the UPDATE with the two ids in the order of the model's signature
GetMarkSwapped(t, ok) ==
  /\ t.phase = "mark"
  /\ gets' = gets \ {t}
  /\ messages' = markMessagesAsRead(messages, t.receiver_id, t.sender_id)
  /\ out' = <<Response("GET / 200", <<t.sender_id, t.receiver_id>>, t.got, Len(t.got))>>
  /\ UNCHANGED <<conns, activeUsers, nextId, now, tasks, nTasks, marks, bcast>>

\* the UPDATE completes; the route answers with the history read before it
GetMark(t, ok) ==
  /\ t.phase = "mark"
  /\ gets' = gets \ {t}
  /\ IF ok
       THEN /\ messages' = markMessagesAsRead(messages, t.sender_id, t.receiver_id)
            /\ out' = <<Response("GET / 200", <<t.sender_id, t.receiver_id>>, t.got, Len(t.got))>>
       ELSE /\ out' = <<Response("GET / 500", <<>>, <<>>, 0)>>
            /\ UNCHANGED messages
  /\ UNCHANGED <<conns, activeUsers, nextId, now, tasks, nTasks, marks, bcast>>

\* mutant: the aggregate without "AND is_read = 0"
getUnreadMessageCountAnyFlag(store, user_id) ==
  LET rows == {m \in store : m.receiver_id = user_id}
  IN  [s \in {m.sender_id : m \in rows} |->
         Cardinality({m \in rows : m.sender_id = s})]

\* getUnreadMessageCount: SELECT sender_id, COUNT(*) ... GROUP BY sender_id,
\* turned into the object {sender_id: count}
getUnreadMessageCount(store, user_id) ==
  LET rows == {m \in store : m.receiver_id = user_id /\ ~m.is_read}
  IN  [s \in {m.sender_id : m \in rows} |->
         Cardinality({m \in rows : m.sender_id = s})]

\* GET /api/messages/unread: validation, then the aggregate and the answer
GetUnread(user_id, ok) ==
  /\ out' = IF user_id = NoUser
              THEN <<Response("GET /unread 400", <<>>, <<>>, 0)>>
            ELSE IF ok
              THEN <<Response("GET /unread 200", <<user_id>>, <<>>,
                              getUnreadMessageCount(messages, user_id))>>
              ELSE <<Response("GET /unread 500", <<>>, <<>>, 0)>>
  /\ UNCHANGED <<conns, activeUsers, messages, nextId, now, tasks, nTasks, marks, gets, bcast>>

\* mutant: grouping by the sender column alone
OtherUserSender(m, user_id) == m.sender_id

\* CASE WHEN sender_id = ? THEN receiver_id ELSE sender_id END
OtherUser(m, user_id) == IF m.sender_id = user_id THEN m.receiver_id ELSE m.sender_id

MaxOf(S) == CHOOSE x \in S : \A y \in S : y <= x

\* SELECT MAX(id) FROM messages WHERE sender_id = ? OR receiver_id = ? GROUP BY ...
LastIds(store, user_id) ==
  LET mine == {m \in store : m.sender_id = user_id \/ m.receiver_id = user_id}
  IN  {MaxOf({m.id : m \in {n \in mine : OtherUser(n, user_id) = k}}) :
         k \in {OtherUser(m, user_id) : m \in mine}}

\* the unread_count subquery of the row m
UnreadCount(store, m, user_id) ==
  Cardinality({n \in DeleteMatches(store, m.sender_id, m.receiver_id) :
                 ~n.is_read /\ n.receiver_id = user_id})

\* the rows the outer SELECT yields: m joined with the other user
ConversationRows(store, user_id) ==
  {[id |-> m.id, sender_id |-> m.sender_id, receiver_id |-> m.receiver_id,
    content |-> m.content, timestamp |-> m.timestamp, is_read |-> m.is_read,
    other_user_id |-> OtherUser(m, user_id),
    unread_count |-> UnreadCount(store, m, user_id)] :
     m \in {n \in store : n.id \in LastIds(store, user_id)}}

\* getUserConversations: the rows in one of the orders that ORDER BY
\* m.timestamp DESC allows
getUserConversations(store, user_id) ==
  LET rows == ConversationRows(store, user_id)
  IN  {h \in [1..Cardinality(rows) -> rows] :
         /\ \A i, j \in DOMAIN h : i # j => h[i] # h[j]
         /\ \A i, j \in DOMAIN h : i < j => h[i].timestamp >= h[j].timestamp}

\* GET /api/messages/conversations: validation, then the query and the answer
GetConversations(user_id, ok) ==
  /\ IF user_id = NoUser
       THEN out' = <<Response("GET /conversations 400", <<>>, <<>>, 0)>>
     ELSE IF ok
       THEN \E h \in getUserConversations(messages, user_id) :
              out' = <<Response("GET /conversations 200", <<user_id>>, h, Len(h))>>
       ELSE out' = <<Response("GET /conversations 500", <<>>, <<>>, 0)>>
  /\ UNCHANGED <<conns, activeUsers, messages, nextId, now, tasks, nTasks, marks, gets, bcast>>

\* the server clock advances
Tick ==
  /\ now < MaxClock
  /\ now' = now + 1
  /\ out' = <<>>
  /\ UNCHANGED <<conns, activeUsers, messages, nextId, tasks, nTasks, marks, gets, bcast>>

(***************************************************************************)
(* Specifications                                                          *)
(***************************************************************************)
Inputs == Users \cup {NoUser}

\* connection lifecycle and conversation rooms
SessionNext ==
  \/ \E c \in Conns, u \in Inputs : Connect(c, u)
  \/ \E c \in Conns : Disconnect(c)
  \/ \E c \in Conns, u \in Inputs : JoinConversation(c, u)
  \/ \E c \in Conns, u \in Inputs : LeaveConversation(c, u)

\* connection lifecycle, conversation rooms and typing indicators
TypingNext ==
  \/ SessionNext
  \/ \E c \in Conns, u \in Inputs : Typing(c, u)
  \/ \E c \in Conns, u \in Inputs : StopTyping(c, u)

\* the steps of the send_message handler
SendNext(limit) ==
  \/ \E c \in Conns, u \in Inputs, x \in Contents : SendMessage(limit, limit, c, u, x)
  \/ \E t \in tasks, ok \in BOOLEAN : SendInit(t, ok)
  \/ \E t \in tasks, ok \in BOOLEAN : SendInsert(t, ok)
  \/ \E t \in tasks, ok \in BOOLEAN : SendSelect(t, ok)

\* the realtime channel with one send_message, and the conversation delete
ChatNext ==
  \/ SessionNext
  \/ SendNext(MaxSends)
  \/ \E a \in Users, b \in Users : DeleteConversation(a, b, TRUE)

\* pipelined send_message events, without conversation rooms
OrderNext ==
  \/ \E c \in Conns, u \in Inputs : Connect(c, u)
  \/ \E c \in Conns : Disconnect(c)
  \/ SendNext(MaxBurst)

\* every writer of the Message Store: socket events and REST routes, with at
\* most MaxPending requests in flight
StoreNext ==
  \/ \E c \in Conns, u \in Inputs : Connect(c, u)
  \/ \E c \in Conns : Disconnect(c)
  \/ \E c \in Conns, u \in Inputs, x \in Contents :
        SendMessage(MaxStored, MaxPending, c, u, x)
  \/ \E t \in tasks, ok \in BOOLEAN : SendInit(t, ok)
  \/ \E t \in tasks, ok \in BOOLEAN : SendInsert(t, ok)
  \/ \E t \in tasks, ok \in BOOLEAN : SendSelect(t, ok)
  \/ \E c \in Conns, u \in Inputs : MarkRead(MaxPending, c, u)
  \/ \E t \in marks, ok \in BOOLEAN : MarkReadDone(t, ok)
  \/ \E a \in Inputs, b \in Inputs, x \in Contents :
        PostSend(MaxStored, MaxPending, a, b, x)
  \/ \E t \in tasks, ok \in BOOLEAN : PostSelect(t, ok)
  \/ \E r \in Users, s \in Users, ok \in BOOLEAN : PutRead(r, s, ok)
  \/ \E a \in Inputs, b \in Inputs, l \in Limits, o \in Offsets :
        GetMessages(MaxPending, a, b, l, o)
  \/ \E t \in gets, ok \in BOOLEAN : GetHistory(t, ok)
  \/ \E t \in gets, ok \in BOOLEAN : GetMark(t, ok)
  \/ \E a \in Users, b \in Users, ok \in BOOLEAN : DeleteConversation(a, b, ok)
  \/ Tick

StoreInit == InitWith(StoreConns, 0)

\* the single-statement routes applied to the stores of up to MaxRows rows
QueryNext ==
  \/ \E r \in Inputs, s \in Inputs, ok \in BOOLEAN : PutRead(r, s, ok)
  \/ \E a \in Inputs, b \in Inputs, ok \in BOOLEAN : DeleteConversation(a, b, ok)
  \/ \E u \in Inputs, ok \in BOOLEAN : GetUnread(u, ok)
  \/ \E u \in Inputs, ok \in BOOLEAN : GetConversations(u, ok)

QueryInit == InitWith(0, MaxRows)

\* concurrent POST /send requests under an advancing clock, and the
\* conversation list
RecencyNext ==
  \/ \E a \in Inputs, b \in Inputs, x \in Contents : PostSend(MaxBurst, MaxBurst, a, b, x)
  \/ \E t \in tasks, ok \in BOOLEAN : SendInit(t, ok)
  \/ \E t \in tasks, ok \in BOOLEAN : SendInsert(t, ok)
  \/ \E t \in tasks, ok \in BOOLEAN : PostSelect(t, ok)
  \/ \E u \in Inputs, ok \in BOOLEAN : GetConversations(u, ok)
  \/ Tick

RecencyInit == InitWith(0, 0)

\* mark_read events of connections that may have joined a conversation, on
\* the stores of up to MaxOld rows
ReadNext ==
  \/ \E c \in Conns, u \in Users : Connect(c, u)
  \/ \E c \in Conns : Disconnect(c)
  \/ \E c \in Conns, u \in Users :
        conns[c].currentChat = NoChat /\ JoinConversation(c, u)
  \/ \E c \in Conns, u \in Inputs : MarkRead(MaxPending, c, u)
  \/ \E t \in marks, ok \in BOOLEAN : MarkReadDone(t, ok)

ReadInit == InitWith(NumConns, MaxOld)

\* GET /api/messages requests on the stores of up to MaxRows rows
HistoryNext ==
  \/ \E a \in Inputs, b \in Inputs, l \in Limits, o \in Offsets :
        GetMessages(MaxPending, a, b, l, o)
  \/ \E t \in gets, ok \in BOOLEAN : GetHistory(t, ok)
  \/ \E t \in gets, ok \in BOOLEAN : GetMark(t, ok)

\* every event that addresses a room, issued by connections of any user
ConfineNext ==
  \/ \E c \in Conns, u \in Users : Connect(c, u)
  \/ \E c \in Conns : Disconnect(c)
  \/ \E c \in Conns, u \in Users : JoinConversation(c, u)
  \/ \E c \in Conns, u \in Users : Typing(c, u)
  \/ \E c \in Conns, u \in Users : StopTyping(c, u)
  \/ \E c \in Conns, u \in Users : MarkRead(MaxPending, c, u)
  \/ \E t \in marks : MarkReadDone(t, TRUE)
  \/ \E c \in Conns, u \in Users, x \in ValidContents :
        SendMessage(MaxSends, MaxPending, c, u, x)
  \/ \E t \in tasks : SendInit(t, TRUE)
  \/ \E t \in tasks : SendInsert(t, TRUE)
  \/ \E t \in tasks : SendSelect(t, TRUE)

\* a GET /api/messages request with a POST /send in flight beside it
GetRaceNext ==
  \/ \E a \in Users, b \in Users, x \in ValidContents :
        tasks = {} /\ PostSend(MaxBurst, MaxBurst, a, b, x)
  \/ \E t \in tasks, ok \in BOOLEAN : SendInit(t, ok)
  \/ \E t \in tasks, ok \in BOOLEAN : SendInsert(t, ok)
  \/ \E t \in tasks, ok \in BOOLEAN : PostSelect(t, ok)
  \/ \E a \in Inputs, b \in Inputs, l \in Limits, o \in Offsets :
        gets = {} /\ GetMessages(MaxBurst, a, b, l, o)
  \/ \E t \in gets, ok \in BOOLEAN : GetHistory(t, ok)
  \/ \E t \in gets, ok \in BOOLEAN : GetMark(t, ok)

\* user ids of one and two digits, whose string order differs from their
\* numeric order
RoomIds == 1..MaxRoomId

\* connections of users with such ids, each joining one conversation
RoomNext ==
  \/ \E c \in Conns, u \in RoomIds : Connect(c, u)
  \/ \E c \in Conns : Disconnect(c)
  \/ \E c \in Conns, u \in RoomIds :
        conns[c].currentChat = NoChat /\ JoinConversation(c, u)

SpecSession == Init /\ [][SessionNext]_vars
SpecTyping == Init /\ [][TypingNext]_vars
SpecChat == Init /\ [][ChatNext]_vars
SpecOrder == Init /\ [][OrderNext]_vars
SpecStore == StoreInit /\ [][StoreNext]_vars
SpecQuery == QueryInit /\ [][QueryNext]_vars
SpecRecency == RecencyInit /\ [][RecencyNext]_vars
SpecHistory == QueryInit /\ [][HistoryNext]_vars
SpecRead == ReadInit /\ [][ReadNext]_vars
SpecConfine == Init /\ [][ConfineNext]_vars
SpecGetRace == RecencyInit /\ [][GetRaceNext]_vars
SpecRoom == Init /\ [][RoomNext]_vars

(***************************************************************************)
(* Properties                                                              *)
(***************************************************************************)
\* the positions of the last step's emissions of one event name
OutEvents(name) == {i \in DOMAIN out : out[i].ev = name}

\* the last step was the broadcast of a send_message
Broadcasting == OutEvents("new_message") # {}

\* the send_message whose broadcast was the latest
LastBcast == bcast[Len(bcast)]

\* C1: every new_message emitted carries the record of a message that is in
\* the Message Store at that moment, whose sender is the emitting connection's
\* user and whose receiver is the requested receiver.
PersistBeforeBroadcast ==
  \A i \in OutEvents("new_message") :
    /\ out[i].msg # <<>>
    /\ out[i].msg[1] \in messages
    /\ out[i].msg[1].sender_id = LastBcast.sender_id
    /\ out[i].msg[1].receiver_id = LastBcast.receiver_id

\* C2: a send_message that emits an error emits nothing else: no new_message,
\* no message_notification, and exactly one error.
FailedSendIsSilent ==
  \A i \in OutEvents("error") : Len(out) = 1

\* C3: a successful send_message emits exactly one new_message on each of the
\* sender's personal channel, the receiver's personal channel and the pair
\* room, also when sender = receiver.
OneNewMessagePerChannel ==
  Broadcasting =>
    \A ch \in {RoomName(LastBcast.sender_id, LastBcast.receiver_id),
               UserRoom(LastBcast.sender_id), UserRoom(LastBcast.receiver_id)} :
      Cardinality({i \in OutEvents("new_message") : out[i].chan = ch}) = 1

\* C4: two send_message events of one connection of A to the same receiver B
\* are observed by every connection of B in the order they were issued.
ReceiverSeesSendOrder ==
  \A i, j \in DOMAIN bcast :
    ( /\ i < j
      /\ bcast[i].conn = bcast[j].conn
      /\ bcast[i].sender_id = bcast[j].sender_id
      /\ bcast[i].receiver_id = bcast[j].receiver_id
      /\ bcast[i].sender_id # bcast[i].receiver_id
      /\ bcast[i].to \cap bcast[j].to # {} )
    => bcast[i].seq < bcast[j].seq

\* C5: the messages of one sender are broadcast in persistence order: an
\* earlier broadcast carries the smaller id.
BroadcastInPersistenceOrder ==
  \A i, j \in DOMAIN bcast :
    (i < j /\ bcast[i].sender_id = bcast[j].sender_id) => bcast[i].id < bcast[j].id

\* C6: when A sends a message to B, every live connection of B that has not
\* joined the A-B room and whose current chat is not that room receives a
\* new_message and a message_notification for it.
OnlineReceiverNotified ==
  (Broadcasting /\ LastBcast.sender_id # LastBcast.receiver_id /\ out[1].msg # <<>>) =>
    LET roomName == RoomName(LastBcast.sender_id, LastBcast.receiver_id) IN
    \A c \in Conns :
      ( /\ Connected(c)
        /\ conns[c].userId = LastBcast.receiver_id
        /\ conns[c].currentChat # roomName
        /\ roomName \notin conns[c].rooms )
      => /\ \E i \in OutEvents("new_message") : c \in out[i].to
         /\ \E i \in OutEvents("message_notification") : c \in out[i].to

\* C7: the Presence Tracker has an entry for user u exactly when u has a live
\* connection.
PresenceIffLive ==
  \A u \in Users :
    MapHas(activeUsers, u) <=> \E c \in Conns : Connected(c) /\ conns[c].userId = u

\* C8: a connection whose handshake carries no user identifier creates no
\* state: no presence entry, no channel or room membership, no user_status
\* broadcast, no handler in progress, and it receives only the handshake error.
RejectedHandshakeLeavesNoState ==
  /\ \A c \in Conns :
       conns[c].st = "rejected" =>
         /\ conns[c].rooms = {}
         /\ conns[c].currentChat = NoChat
         /\ ~Pending(c)
         /\ \A e \in activeUsers : e[2] # c
  /\ \A c \in Conns : Connected(c) => conns[c].userId # NoUser
  /\ ~MapHas(activeUsers, NoUser)
  /\ \A t \in tasks : t.kind = "send" => t.sender_id # NoUser
  /\ \A i \in OutEvents("user_status") : out[i].arg # NoUser
  /\ \A i \in DOMAIN out : \A c \in out[i].to :
       conns[c].st = "rejected" => out[i].ev = "connect_error"

\* C8 witness: a socket was refused while another one is connected and a
\* message is stored
RejectedWhileOthersChat ==
  /\ \E c \in Conns : conns[c].st = "rejected"
  /\ \E c \in Conns : Connected(c)
  /\ messages # {}

\* C9: a stored message keeps its sender, receiver, content and timestamp, its
\* read flag never goes back to false, and it leaves the store only in a
\* step that answers a DELETE /conversation of its pair.
PersistedFieldsImmutable ==
  [][\A m \in messages :
       \/ \E n \in messages' :
            /\ n.id = m.id
            /\ n.sender_id = m.sender_id
            /\ n.receiver_id = m.receiver_id
            /\ n.content = m.content
            /\ n.timestamp = m.timestamp
            /\ (m.is_read => n.is_read)
       \/ /\ \A n \in messages' : n.id # m.id
          /\ \E i \in DOMAIN out' :
               /\ out'[i].chan = "DELETE /conversation 200"
               /\ m \in DeleteMatches(messages, out'[i].req[1], out'[i].req[2])
    ]_vars

\* C9 witness: a mark_read event has just set the read flag of a stored message
ReadFlagSetByEvent ==
  /\ \E m \in messages : m.is_read
  /\ \E i \in OutEvents("messages_read") : out[i].arg = 1

\* C10: a PUT /read of (receiver, sender) sets the read flag of exactly the
\* unread messages from sender to receiver, answers their number and leaves
\* every other message as it was; repeated at once, it answers 0 and changes
\* nothing.
MarkReadExact ==
  [][\A i \in DOMAIN out' :
       out'[i].chan = "PUT /read 200" =>
         LET hit == {m \in messages : /\ m.receiver_id = out'[i].req[1]
                                      /\ m.sender_id = out'[i].req[2]
                                      /\ ~m.is_read}
         IN  /\ out'[i].arg = Cardinality(hit)
             /\ messages' = (messages \ hit) \cup {[m EXCEPT !.is_read = TRUE] : m \in hit}
             /\ (\E j \in DOMAIN out : /\ out[j].chan = "PUT /read 200"
                                       /\ out[j].req = out'[i].req)
                  => (out'[i].arg = 0 /\ messages' = messages)
    ]_vars

\* C10 witness: a PUT /read marked two messages while an unread message of the
\* opposite direction stayed unread
MarkReadLeavesOthers ==
  \E i \in DOMAIN out :
    /\ out[i].chan = "PUT /read 200"
    /\ out[i].arg = 2
    /\ out[i].req[1] # out[i].req[2]
    /\ \E m \in messages : /\ ~m.is_read
                           /\ m.sender_id = out[i].req[1]
                           /\ m.receiver_id = out[i].req[2]

\* C11: the answer of GET /unread for a user maps each counterpart c to the
\* number of stored messages with sender c, receiver user and read flag unset,
\* and has no key for a counterpart without such a message.
UnreadCountsExact ==
  \A i \in DOMAIN out :
    out[i].chan = "GET /unread 200" =>
      LET user == out[i].req[1]
          unread(c) == {m \in messages :
                          m.sender_id = c /\ m.receiver_id = user /\ ~m.is_read}
      IN  /\ DOMAIN out[i].arg = {c \in Users : unread(c) # {}}
          /\ \A c \in DOMAIN out[i].arg : out[i].arg[c] = Cardinality(unread(c))

\* C11 witness: one counterpart is reported with two unread messages while
\* another one, whose only message to the user is read, has no key
UnreadCountsSkipRead ==
  \E i \in DOMAIN out :
    /\ out[i].chan = "GET /unread 200"
    /\ \E c \in DOMAIN out[i].arg : out[i].arg[c] = 2
    /\ \E m \in messages : /\ m.receiver_id = out[i].req[1]
                           /\ m.is_read
                           /\ m.sender_id \notin DOMAIN out[i].arg

\* C12: the answer of GET /conversations for a user lists each counterpart
\* the user has exchanged messages with exactly once, both directions in one
\* bucket, and the message listed for a counterpart has the greatest id of the
\* messages of that pair; also for messages the user sent to themselves.
ConversationsOncePerCounterpart ==
  \A i \in DOMAIN out :
    out[i].chan = "GET /conversations 200" =>
      LET user == out[i].req[1]
          h == out[i].msg
          pair(c) == {m \in messages : \/ (m.sender_id = user /\ m.receiver_id = c)
                                       \/ (m.sender_id = c /\ m.receiver_id = user)}
      IN  /\ {h[k].other_user_id : k \in DOMAIN h} = {c \in Users : pair(c) # {}}
          /\ \A k, l \in DOMAIN h : h[k].other_user_id = h[l].other_user_id => k = l
          /\ \A k \in DOMAIN h :
               /\ \E m \in pair(h[k].other_user_id) : m.id = h[k].id
               /\ \A m \in pair(h[k].other_user_id) : m.id <= h[k].id

\* C12 witness: the user has a conversation with themselves and one with
\* another user that holds messages of both directions
ConversationsBothDirections ==
  \E i \in DOMAIN out :
    /\ out[i].chan = "GET /conversations 200"
    /\ Len(out[i].msg) = 2
    /\ \E m, n \in messages : /\ m.sender_id = out[i].req[1]
                              /\ m.receiver_id # out[i].req[1]
                              /\ n.sender_id = m.receiver_id
                              /\ n.receiver_id = m.sender_id

\* C13: the message that GET /conversations lists for a counterpart has the
\* maximum timestamp among the stored messages of that pair.
LastMessageHasMaxTimestamp ==
  \A i \in DOMAIN out :
    out[i].chan = "GET /conversations 200" =>
      \A k \in DOMAIN out[i].msg :
        \A m \in DeleteMatches(messages, out[i].req[1], out[i].msg[k].other_user_id) :
          m.timestamp <= out[i].msg[k].timestamp

\* the room key of every pair of ids
RoomKeys == [a \in RoomIds, b \in RoomIds |-> RoomName(a, b)]

\* C14: the room a connection of user a joined for its conversation with b is
\* the key of (a, b) and of (b, a) and of no other unordered pair, and two
\* connections that joined the conversation with each other's user are in
\* the same room.
RoomKeySymmetric ==
  /\ \A c \in Conns :
       (Connected(c) /\ conns[c].currentChat # NoChat) =>
         \E b \in RoomIds :
           /\ conns[c].currentChat = RoomKeys[conns[c].userId, b]
           /\ conns[c].currentChat = RoomKeys[b, conns[c].userId]
           /\ \A x, y \in RoomIds :
                RoomKeys[x, y] = conns[c].currentChat => {x, y} = {conns[c].userId, b}
  /\ \A c, d \in Conns :
       ( /\ Connected(c) /\ Connected(d)
         /\ conns[c].currentChat = RoomKeys[conns[c].userId, conns[d].userId]
         /\ conns[d].currentChat = RoomKeys[conns[d].userId, conns[c].userId] )
       => conns[c].currentChat = conns[d].currentChat

\* C14 witness: users 2 and 10, whose string order is the reverse of their
\* numeric order, each joined the conversation with the other
RoomKeyOfTwoAndTen ==
  \E c, d \in Conns :
    /\ Connected(c) /\ conns[c].userId = 2
    /\ Connected(d) /\ conns[d].userId = 10
    /\ conns[c].currentChat = "10_2"
    /\ conns[d].currentChat = "10_2"

\* C15: no send_message with a missing receiver or with blank content gets
\* past the validation, and the step that rejects one changes neither the
\* Message Store nor the handlers in progress and emits exactly one event:
\* the error, to one live connection.
InvalidSendRejected ==
  [][/\ \A t \in tasks' :
          t.kind = "send" => (t.receiver_id # NoUser /\ t.content \notin BlankContents)
     /\ \A m \in messages' : m.receiver_id # NoUser /\ m.content \notin BlankContents
     /\ \A i \in DOMAIN out' :
          (out'[i].ev = "error" /\ out'[i].status = "Invalid message data") =>
            /\ Len(out') = 1
            /\ messages' = messages /\ nextId' = nextId /\ tasks' = tasks
            /\ \E c \in Conns : Connected(c) /\ out'[i].to = {c}
    ]_vars

\* C15 witness: a send_message was rejected while both sockets of its pair
\* room were connected and a message was stored
InvalidSendWithPeer ==
  /\ Len(out) = 1 /\ out[1].ev = "error" /\ out[1].status = "Invalid message data"
  /\ messages # {}
  /\ \E c, d \in Conns : /\ c # d /\ Connected(c) /\ Connected(d)
                         /\ conns[c].userId # conns[d].userId
                         /\ conns[c].currentChat # NoChat
                         /\ conns[c].currentChat = conns[d].currentChat

\* C16: the step that completes a mark_read of a connection of user u for a
\* sender either sets the read flag of exactly the unread messages from sender
\* to u and emits one messages_read with their number to the pair room of u
\* and sender, or, when the store operation fails, leaves the store as it was
\* and emits one error that reaches no connection but the originating one.
MarkReadEventExact ==
  [][\A t \in marks \ marks' :
       LET hit == {m \in messages : /\ m.sender_id = t.sender_id
                                    /\ m.receiver_id = t.receiver_id
                                    /\ ~m.is_read}
       IN  /\ Len(out') = 1
           /\ \/ /\ out'[1].ev = "messages_read"
                 /\ out'[1].chan = RoomName(t.receiver_id, t.sender_id)
                 /\ out'[1].to = {c \in Conns : Connected(c) /\ out'[1].chan \in conns[c].rooms}
                 /\ out'[1].arg = Cardinality(hit)
                 /\ messages' = (messages \ hit) \cup {[m EXCEPT !.is_read = TRUE] : m \in hit}
              \/ /\ out'[1].ev = "error"
                 /\ out'[1].to \subseteq {t.conn}
                 /\ messages' = messages
    ]_vars

\* C16 witness: a mark_read set one flag and its messages_read reached both
\* participants, while the message of the opposite direction stayed unread
MarkReadEventSeenByBoth ==
  /\ Len(out) = 1 /\ out[1].ev = "messages_read" /\ out[1].arg = 1
  /\ Cardinality(out[1].to) = 2
  /\ \E m, n \in messages : /\ m.is_read /\ ~n.is_read
                            /\ m.sender_id = n.receiver_id /\ m.receiver_id = n.sender_id
                            /\ m.sender_id # m.receiver_id

\* C17: a user_typing or user_stop_typing event goes to the members of one
\* pair room of the emitting user except the emitting connection, and the
\* step that emits it changes neither the Message Store nor the Presence
\* Tracker nor any connection's rooms or current chat.
TypingRelayedToOthers ==
  [][\A i \in DOMAIN out' :
       out'[i].ev \in {"user_typing", "user_stop_typing"} =>
         /\ \E b \in Users : out'[i].chan = RoomName(out'[i].arg, b)
         /\ \E c \in Conns :
              /\ Connected(c) /\ conns[c].userId = out'[i].arg
              /\ out'[i].to = {d \in Conns \ {c} :
                                 Connected(d) /\ out'[i].chan \in conns[d].rooms}
         /\ conns' = conns /\ activeUsers' = activeUsers
         /\ messages' = messages /\ nextId' = nextId
    ]_vars

\* C17 witness: the only connection of a user, a member of the pair room,
\* emitted a typing event that reached the other member and not itself
TypingSeenByPeerOnly ==
  \E i \in DOMAIN out :
    /\ out[i].ev = "user_typing"
    /\ Cardinality(out[i].to) = 1
    /\ \E c \in Conns \ out[i].to :
         /\ Connected(c) /\ conns[c].userId = out[i].arg
         /\ out[i].chan \in conns[c].rooms

GetMarksOnlyQueryReceiver ==
  [][/\ \A i \in DOMAIN out' :
          out'[i].chan = "GET / 200" =>
            LET hit == {m \in messages : /\ m.receiver_id = out'[i].req[1]
                                         /\ m.sender_id = out'[i].req[2]
                                         /\ ~m.is_read}
            IN  messages' = (messages \ hit) \cup {[m EXCEPT !.is_read = TRUE] : m \in hit}
     /\ (gets' # gets /\ \A i \in DOMAIN out' : out'[i].chan # "GET / 200")
          => messages' = messages
    ]_vars

\* C19 witness: a GET of (S, R) set the flag of a message from R to S while an
\* unread message from S to R stayed unread
GetLeavesOwnMessagesUnread ==
  \E i \in DOMAIN out :
    /\ out[i].chan = "GET / 200"
    /\ out[i].req[1] # out[i].req[2]
    /\ \E k \in DOMAIN out[i].msg :
         /\ out[i].msg[k].receiver_id = out[i].req[1]
         /\ ~out[i].msg[k].is_read
         /\ [out[i].msg[k] EXCEPT !.is_read = TRUE] \in messages
    /\ \E m \in messages : /\ m.sender_id = out[i].req[1]
                           /\ m.receiver_id = out[i].req[2]
                           /\ ~m.is_read

\* C20: the history a GET request has read holds only stored messages of
\* its two users, in ascending timestamp order, as many as limit allows after
\* offset, and for two different users it is the sequence the query yields
\* with the two users swapped.
HistorySymmetricAscending ==
  \A t \in gets :
    t.phase = "mark" =>
      LET pair == {m \in messages : \/ (m.sender_id = t.sender_id /\ m.receiver_id = t.receiver_id)
                                    \/ (m.sender_id = t.receiver_id /\ m.receiver_id = t.sender_id)}
          rest == IF Cardinality(pair) > t.offset THEN Cardinality(pair) - t.offset ELSE 0
      IN  /\ \A k \in DOMAIN t.got : t.got[k] \in pair
          /\ \A k, l \in DOMAIN t.got : k < l => t.got[k].timestamp <= t.got[l].timestamp
          /\ Len(t.got) = IF rest < t.limit THEN rest ELSE t.limit
          /\ t.sender_id # t.receiver_id =>
               \A h \in getMessages(messages, t.receiver_id, t.sender_id, t.limit, t.offset) :
                 h = t.got

\* C21: the step that answers DELETE /conversation of (user1, user2) with
\* 200 removes exactly the stored messages between the two users, of both
\* directions, answers their number and leaves every other message as it
\* was; in the resulting store the conversation list of user1 has no entry
\* for user2 and the unread counts of either user have no key for the other.
DeleteRemovesPair ==
  [][\A i \in DOMAIN out' :
       out'[i].chan = "DELETE /conversation 200" =>
         LET u1 == out'[i].req[1]
             u2 == out'[i].req[2]
             pair == {m \in messages : \/ (m.sender_id = u1 /\ m.receiver_id = u2)
                                       \/ (m.sender_id = u2 /\ m.receiver_id = u1)}
         IN  /\ messages' = messages \ pair
             /\ out'[i].arg = Cardinality(pair)
             /\ \A h \in getUserConversations(messages', u1) :
                  \A k \in DOMAIN h : h[k].other_user_id # u2
             /\ u2 \notin DOMAIN getUnreadMessageCount(messages', u1)
             /\ u1 \notin DOMAIN getUnreadMessageCount(messages', u2)
    ]_vars

\* C21 witness: a DELETE /conversation removed two messages of two distinct
\* users while a message of another pair stayed in the store
DeleteLeavesOtherPair ==
  \E i \in DOMAIN out :
    /\ out[i].chan = "DELETE /conversation 200"
    /\ out[i].arg = 2
    /\ out[i].req[1] # out[i].req[2]
    /\ messages # {}

\* C22: a row that enters the store gets an id greater than every id assigned
\* before, and the message a send resolves with (the payload of its
\* new_message, or the body of the 201 answer) is the row of that id with the
\* given sender, receiver and content and the read flag unset.
PersistReturnsStoredMessage ==
  [][/\ \A m \in messages' :
          (\A n \in messages : n.id # m.id) => (m.id >= nextId /\ nextId' > m.id)
     /\ \A t \in tasks \ tasks' :
          ( /\ t.phase = "select"
            /\ Len(out') > 0
            /\ out'[1].ev = "new_message" \/ out'[1].chan = "POST /send 201" )
          => out'[1].msg = <<[id |-> t.id, sender_id |-> t.sender_id,
                              receiver_id |-> t.receiver_id, content |-> t.content,
                              timestamp |-> t.ts, is_read |-> FALSE]>>
    ]_vars

\* C23: no connection has more than one handler suspended in a persistence
\* call: a send_message or mark_read of a connection starts only when the
\* earlier handlers of that connection have finished.
OneHandlerPerConnection ==
  \A c \in Conns :
    Cardinality({t \in tasks : t.kind = "send" /\ t.conn = c})
      + Cardinality({t \in marks : t.conn = c}) <= 1

\* C24: a step that changes a live connection is a join, which adds the pair
\* room of the connection's user and some other user to its rooms and makes
\* it the current chat, or a leave, which removes such a room and clears the
\* current chat; it changes neither the Message Store nor the Presence
\* Tracker nor any other connection.
JoinLeaveEffect ==
  [][\A c \in Conns :
       (Connected(c) /\ conns'[c].st = "connected" /\ conns'[c] # conns[c]) =>
         /\ conns'[c].userId = conns[c].userId
         /\ \E o \in Users :
              LET roomName == RoomName(conns[c].userId, o) IN
              \/ /\ conns'[c].rooms = conns[c].rooms \cup {roomName}
                 /\ conns'[c].currentChat = roomName
              \/ /\ conns'[c].rooms = conns[c].rooms \ {roomName}
                 /\ conns'[c].currentChat = NoChat
         /\ messages' = messages /\ activeUsers' = activeUsers
         /\ \A d \in Conns \ {c} : conns'[d] = conns[d]
    ]_vars

\* C24 witness: one connection is in the room that is its current chat, and
\* another one has left a conversation while still a member of a second one
JoinedAndLeft ==
  \E c, d \in Conns :
    /\ c # d /\ Connected(c) /\ Connected(d)
    /\ conns[c].currentChat # NoChat /\ conns[c].currentChat \in conns[c].rooms
    /\ conns[d].currentChat = NoChat
    /\ conns[d].rooms # {UserRoom(conns[d].userId)}

\* C25: a live connection is a member of at most one pair room, and its
\* current chat is set exactly when it is a member of one, which it names.
AtMostOnePairRoom ==
  \A c \in Conns :
    Connected(c) =>
      LET pairRooms == conns[c].rooms \ {UserRoom(conns[c].userId)} IN
      /\ Cardinality(pairRooms) <= 1
      /\ conns[c].currentChat # NoChat <=> pairRooms # {}
      /\ conns[c].currentChat # NoChat => pairRooms = {conns[c].currentChat}

\* C26: a message_notification for a message never reaches a connection whose
\* current chat is the pair room of that message.
NoNotificationInCurrentChat ==
  Broadcasting =>
    \A i \in OutEvents("message_notification") :
      \A c \in out[i].to :
        conns[c].currentChat # RoomName(LastBcast.sender_id, LastBcast.receiver_id)

\* C27: a user_status event agrees with the user's live connections at the
\* moment it is broadcast: offline only when the user has no live connection
\* left, online only when the user has one.
StatusAgreesWithLiveness ==
  \A i \in OutEvents("user_status") :
    (out[i].status = "online") <=>
      \E c \in Conns : Connected(c) /\ conns[c].userId = out[i].arg

ActsUnderHandshakeIdentity ==
  [][/\ \A t \in tasks' \ tasks :
          (t.kind = "send" /\ t.phase = "init") =>
            (Connected(t.conn) /\ t.sender_id = conns[t.conn].userId)
     /\ \A t \in tasks \ tasks' :
          (t.kind = "send" /\ t.phase = "insert") =>
            \A m \in messages' \ messages : m.sender_id = t.sender_id
     /\ \A t \in marks' \ marks :
          Connected(t.conn) /\ t.receiver_id = conns[t.conn].userId
     /\ \A t \in marks \ marks' :
          \A m \in messages \ messages' : m.receiver_id = t.receiver_id
    ]_vars

\* C29 witness: a connection's message to another user was persisted and
\* broadcast with the connection's user as sender
SentUnderOwnIdentity ==
  /\ Broadcasting
  /\ out[1].msg # <<>>
  /\ out[1].msg[1].sender_id # out[1].msg[1].receiver_id
  /\ Connected(LastBcast.conn)
  /\ out[1].msg[1].sender_id = conns[LastBcast.conn].userId

\* C30: when a GET /messages request between two different users whose page
\* covers the whole conversation completes, every message whose read flag
\* its update set is among the messages its history query returned.
GetMarksOnlyWhatItRead ==
  [][\A t \in gets \ gets' :
       (/\ t.phase = "mark" /\ t.sender_id # t.receiver_id
        /\ t.offset = 0 /\ t.limit >= Cardinality(messages)) =>
         \A m \in messages \ messages' :
           \E k \in DOMAIN t.got : t.got[k].id = m.id
    ]_vars

====
